---------------------------- MODULE Spec2Model ----------------------------
(***************************************************************************)
(* A model of src/components/kokonutui/spotlight-cards.tsx: the            *)
(* SpotlightCards container (the items prop, the hoveredTitle state, the   *)
(* rendered list of Card elements with their dimmed flag) and the Card     *)
(* component (normX, normY, the glowOpacity target, the derived raw        *)
(* rotations and their springs) under mouse-enter, mouse-leave and         *)
(* mouse-move events and changes of the items prop.                        *)
(*                                                                         *)
(* Numbers.  normX and normY are JavaScript numbers obtained by one        *)
(* division; they are modelled as exact fractions <<n, d>> in lowest terms *)
(* with d > 0.  An item is modelled by its title and its color; the icon   *)
(* and the description are display payload that no handler reads.          *)
(***************************************************************************)
EXTENDS Integers, Sequences, FiniteSets

VARIABLES
    itemsProp,     \* the items prop as passed by the caller: {} when omitted, {list} when given
    hoveredTitle,  \* useState<string | null> as of the last render: {} for null, {t} for the title t
    queued,        \* setHoveredTitle calls not yet rendered, oldest first
    cardState,     \* per mounted Card (by React key = title): normX, normY, glow target
    cards,         \* the committed render: one [key, item, dimmed] per Card element
    pointer,       \* the card the browser holds the pointer over: {} or {title}
    delivery,      \* callbacks of one pointer movement not yet delivered (SpecAnyOrder)
    spring,        \* rotateX and rotateY of the observed card: position and velocity
    retargets,     \* number of events that moved a spring target (SpecSpring)
    last           \* the last event, what it acted on and what it found

vars == <<itemsProp, hoveredTitle, queued, cardState, cards, pointer, delivery, spring,
          retargets, last>>

-----------------------------------------------------------------------------
(* Bounds of the model *)

\* widths and heights of a card's bounding rectangle range over 1..MaxW
MaxW == 2
\* rect.left and rect.top are 0 or MaxOrigin
MaxOrigin == 1
\* spring positions are counted in 1/Scale of a degree
Scale == 1000
\* events that change a spring target, per behaviour of SpecSpring
MaxRetargets == 2
\* setHoveredTitle calls that may wait for one render
MaxQueued == 2

-----------------------------------------------------------------------------
(* Constants of the program *)

TILT_MAX == 9
TILT_STIFFNESS == 300
TILT_DAMPING == 28

\* an optional value: null (or an omitted prop) is the empty set
None == {}
Some(x) == {x}
Val(o) == CHOOSE x \in o : TRUE

Item(t, c) == [title |-> t, color |-> c]

DEFAULT_ITEMS ==
    << Item("Instant", "#f59e0b"), Item("Secure", "#60a5fa"),
       Item("Global", "#34d399"), Item("Developer first", "#a78bfa"),
       Item("Scalable", "#38bdf8"), Item("Serverless", "#f472b6") >>

-----------------------------------------------------------------------------
(* Inputs: the item lists a caller passes *)

CallerItems == { Item("A", "#f00"), Item("B", "#f00"), Item("A", "#00f") }

CallerTitles == { it.title : it \in CallerItems }

Range(s) == { s[i] : i \in DOMAIN s }

TitlesOf(its) == { its[i].title : i \in DOMAIN its }

\* React's contract for keyed siblings, and the spec's data invariant
DistinctTitles(its) ==
    \A i, j \in DOMAIN its : its[i].title = its[j].title => i = j

CallerLists ==
    { s \in UNION { [1..n -> CallerItems] : n \in 0..Cardinality(CallerTitles) } :
        DistinctTitles(s) }

ItemsProps == {None} \cup { Some(s) : s \in CallerLists }

-----------------------------------------------------------------------------
(* Fractions *)

Abs(x) == IF x < 0 THEN -x ELSE x

RECURSIVE GCD(_, _)
GCD(a, b) == IF b = 0 THEN a ELSE GCD(b, a % b)

\* n / d, d > 0, in lowest terms
Quot(n, d) == LET g == GCD(Abs(n), d) IN <<n \div g, d \div g>>

\* a <= b
Leq(a, b) == a[1] * b[2] <= b[1] * a[2]

Whole(n) == <<n, 1>>

InUnit(p) == Leq(Whole(0), p) /\ Leq(p, Whole(1))

-----------------------------------------------------------------------------
(* Card: its motion values and the values derived from them *)

\* useMotionValue(0.5)
Half == Quot(1, 2)

\* a Card as mounted: normX = normY = 0.5, glowOpacity = useSpring(0, ...)
InitCard == [normX |-> Half, normY |-> Half, glow |-> 0]

\* clamp(0, 1, v): useTransform clamps its input to the input range [0, 1]
Clamp01(v) == IF Leq(v, Whole(0)) THEN Whole(0)
              ELSE IF Leq(Whole(1), v) THEN Whole(1) ELSE v

\* useTransform(v, [0, 1], [from, to]): from + (to - from) * progress
Transform(v, from, to) ==
    LET c == Clamp01(v) IN Quot(from * c[2] + (to - from) * c[1], c[2])

rawRotateX(c) == Transform(c.normY, TILT_MAX, -TILT_MAX)

rawRotateY(c) == Transform(c.normX, -TILT_MAX, TILT_MAX)

OffsetXNoLeft(e, rect) == e.clientX

\* e.clientX - rect.left
OffsetX(e, rect) == e.clientX - rect.left

\* e.clientY - rect.top
OffsetY(e, rect) == e.clientY - rect.top

handleMouseMoveRecentre(c, refOk, e, rect) ==
    IF ~refOk
    THEN [c EXCEPT !.normX = Half, !.normY = Half]
    ELSE [c EXCEPT !.normX = Quot(OffsetX(e, rect), rect.width),
                   !.normY = Quot(OffsetY(e, rect), rect.height)]

\* handleMouseMove on a Card in state c; refOk: cardRef.current is not null
handleMouseMove(c, refOk, e, rect) ==
    IF ~refOk
    THEN c
    ELSE [c EXCEPT !.normX = Quot(OffsetX(e, rect), rect.width),
                   !.normY = Quot(OffsetY(e, rect), rect.height)]

onHoverStartColor(item) == Some(item.color)

\* onHoverStart={() => setHoveredTitle(item.title)}: the value queued
onHoverStart(item) == Some(item.title)

\* onHoverEnd={() => setHoveredTitle(null)}: the value queued
onHoverEnd == None

\* handleMouseEnter of the Card showing item, on st = [queue, cs]: the
\* motion value is set at once, the state update is queued for a render
handleMouseEnter(st, item) ==
    [queue |-> Append(st.queue, onHoverStart(item)),
     cs |-> [st.cs EXCEPT ![item.title].glow = 1]]

handleMouseLeaveKeepY(st, item) ==
    [queue |-> Append(st.queue, onHoverEnd),
     cs |-> [st.cs EXCEPT ![item.title].normX = Half,
                          ![item.title].glow = 0]]

\* handleMouseLeave of the Card showing item
handleMouseLeave(st, item) ==
    [queue |-> Append(st.queue, onHoverEnd),
     cs |-> [st.cs EXCEPT ![item.title].normX = Half,
                          ![item.title].normY = Half,
                          ![item.title].glow = 0]]

-----------------------------------------------------------------------------
(* SpotlightCards: the render *)

ResolveItemsOrDefault(p) ==
    IF p = None THEN DEFAULT_ITEMS
    ELSE IF Val(p) = <<>> THEN DEFAULT_ITEMS ELSE Val(p)

\* items = DEFAULT_ITEMS: the default applies when the prop is omitted
ResolveItems(p) == IF p = None THEN DEFAULT_ITEMS ELSE Val(p)

\* hoveredTitle === item.title
IsHovered(h, item) == h = Some(item.title)

dimmedWhenAnyHovered(h, item) == h # None

\* dimmed={hoveredTitle !== null && hoveredTitle !== item.title}
dimmed(h, item) == h # None /\ ~IsHovered(h, item)

RenderReversed(its, h) ==
    [i \in 1..Len(its) |->
        [key |-> its[Len(its) + 1 - i].title,
         item |-> its[Len(its) + 1 - i],
         dimmed |-> dimmed(h, its[Len(its) + 1 - i])]]

\* items.map((item) => <Card key={item.title} item={item} dimmed={...} />)
Render(its, h) ==
    [i \in 1..Len(its) |->
        [key |-> its[i].title, item |-> its[i], dimmed |-> dimmed(h, its[i])]]

items == ResolveItems(itemsProp)

ItemOf(t) == CHOOSE it \in Range(items) : it.title = t

\* React keeps the state of a Card whose key is still rendered and mounts
\* the others anew
Reconcile(cs, its) ==
    [t \in TitlesOf(its) |-> IF t \in DOMAIN cs THEN cs[t] ELSE InitCard]

-----------------------------------------------------------------------------
(* Events *)

\* getBoundingClientRect() of a card: the box is never empty (the card has
\* padding and a border); it lies at the origin or MaxOrigin away from it
Rects ==
    { [left |-> o, top |-> o, width |-> w, height |-> h] :
        o \in {0, MaxOrigin}, w \in 1..MaxW, h \in 1..MaxW }

\* pointer positions on and just around the rectangle
MouseEvents(rect) ==
    [clientX : (rect.left - 1)..(rect.left + rect.width + 1),
     clientY : (rect.top - 1)..(rect.top + rect.height + 1)]

InBounds(e, rect) ==
    /\ rect.left <= e.clientX /\ e.clientX <= rect.left + rect.width
    /\ rect.top <= e.clientY /\ e.clientY <= rect.top + rect.height

Event(kind) ==
    [kind |-> kind, card |-> None, left |-> None, inBounds |-> FALSE,
     refOk |-> TRUE, offCentre |-> FALSE]

OffCentre(c) == c.normX # Half \/ c.normY # Half

state == [queue |-> queued, cs |-> cardState]

\* what the handlers of one event dispatch leave behind: motion values set,
\* state updates queued; hoveredTitle and the rendered cards are as they were
\* until React renders
Handled(st) ==
    /\ Len(st.queue) <= MaxQueued
    /\ queued' = st.queue
    /\ cardState' = st.cs
    /\ UNCHANGED <<hoveredTitle, cards>>

\* useState after the queued updates are applied in order: each update is a
\* plain value, so the last one stands
Reduce(h, q) == IF q = <<>> THEN h ELSE q[Len(q)]

\* React renders SpotlightCards with the queued updates applied
RenderQueued ==
    /\ queued # <<>>
    /\ hoveredTitle' = Reduce(hoveredTitle, queued)
    /\ queued' = <<>>
    /\ cards' = Render(items, hoveredTitle')
    /\ last' = [Event("render") EXCEPT !.left = hoveredTitle, !.card = hoveredTitle']
    /\ UNCHANGED <<itemsProp, cardState, pointer, delivery, spring, retargets>>

Init ==
    /\ itemsProp \in ItemsProps
    /\ hoveredTitle = None
    /\ queued = <<>>
    /\ cardState = [t \in TitlesOf(items) |-> InitCard]
    /\ cards = Render(items, None)
    /\ pointer = None
    /\ delivery = [pending |-> {}, enterFirst |-> FALSE, from |-> None, to |-> None]
    /\ spring = [rotateX |-> [pos |-> 0, vel |-> 0], rotateY |-> [pos |-> 0, vel |-> 0]]
    /\ retargets = 0
    /\ last = Event("mount")

\* the pointer comes onto the card keyed t from outside every card
EnterCard(t) ==
    /\ pointer = None
    /\ t \in TitlesOf(items)
    /\ Handled(handleMouseEnter(state, ItemOf(t)))
    /\ pointer' = Some(t)
    /\ last' = [Event("enter") EXCEPT !.card = Some(t)]
    /\ UNCHANGED <<itemsProp, delivery, spring, retargets>>

\* the pointer leaves the card it is over and is over no card
LeaveCard ==
    /\ pointer # None
    /\ Handled(handleMouseLeave(state, ItemOf(Val(pointer))))
    /\ pointer' = None
    /\ last' = [Event("leave") EXCEPT !.left = pointer,
                                      !.offCentre = OffCentre(cardState[Val(pointer)])]
    /\ UNCHANGED <<itemsProp, delivery, spring, retargets>>

\* the pointer goes from the card it is over straight onto the card keyed
\* u: React dispatches the mouse-leave, then the mouse-enter, in one event
CrossCard(u) ==
    /\ pointer # None
    /\ u \in TitlesOf(items) \ {Val(pointer)}
    /\ Handled(handleMouseEnter(handleMouseLeave(state, ItemOf(Val(pointer))), ItemOf(u)))
    /\ pointer' = Some(u)
    /\ last' = [Event("cross") EXCEPT !.card = Some(u), !.left = pointer,
                                      !.offCentre = OffCentre(cardState[Val(pointer)])]
    /\ UNCHANGED <<itemsProp, delivery, spring, retargets>>

\* a mouse-move on the card the pointer is over
MoveOnCard(refOk, rect, e) ==
    /\ pointer # None
    /\ cardState' = [cardState EXCEPT
                        ![Val(pointer)] = handleMouseMove(@, refOk, e, rect)]
    /\ last' = [Event("move") EXCEPT !.card = pointer, !.refOk = refOk,
                                     !.inBounds = InBounds(e, rect)]
    /\ UNCHANGED <<itemsProp, hoveredTitle, queued, cards, pointer, delivery, spring, retargets>>

\* the caller renders SpotlightCards again with another items prop; a Card
\* that is unmounted gets no mouse-leave.  The render applies the queued
\* updates (flush) or, when it runs at a higher priority than theirs,
\* leaves them queued
SetItems(p, flush) ==
    /\ p # itemsProp
    /\ itemsProp' = p
    /\ hoveredTitle' = IF flush THEN Reduce(hoveredTitle, queued) ELSE hoveredTitle
    /\ queued' = IF flush THEN <<>> ELSE queued
    /\ cardState' = Reconcile(cardState, ResolveItems(p))
    /\ cards' = Render(ResolveItems(p), hoveredTitle')
    /\ pointer' = IF pointer # None /\ Val(pointer) \in TitlesOf(ResolveItems(p))
                  THEN pointer ELSE None
    /\ last' = Event("items")
    /\ UNCHANGED <<delivery, spring, retargets>>

MouseEnter == \E t \in TitlesOf(items) : EnterCard(t)

MouseCross == \E u \in TitlesOf(items) : CrossCard(u)

\* with no element there is no rectangle either: the one passed is not read
MouseMove ==
    \/ \E rect \in Rects : \E e \in MouseEvents(rect) : MoveOnCard(TRUE, rect, e)
    \/ \E e \in MouseEvents(CHOOSE r \in Rects : TRUE) :
          MoveOnCard(FALSE, CHOOSE r \in Rects : TRUE, e)

ItemsChange == \E p \in ItemsProps, flush \in BOOLEAN : SetItems(p, flush)

\* The container: pointer events on the cards, renders and changes of the
\* items prop.  Mouse-moves, which write only normX and normY of the card
\* under the pointer, are taken up in SpecMove.
Next ==
    \/ MouseEnter
    \/ LeaveCard
    \/ MouseCross
    \/ RenderQueued
    \/ ItemsChange

Spec == Init /\ [][Next]_vars

\* The cards under mouse-moves: two cards, every pointer event and render
InitMove ==
    /\ Init
    /\ itemsProp = Some(<<Item("A", "#f00"), Item("B", "#f00")>>)

NextMove ==
    \/ MouseEnter
    \/ LeaveCard
    \/ MouseCross
    \/ MouseMove
    \/ RenderQueued

SpecMove == InitMove /\ [][NextMove]_vars

-----------------------------------------------------------------------------
(* Callbacks of one pointer movement delivered in either order *)

Callbacks(from, to) ==
    (IF from = None THEN {} ELSE {[ev |-> "leave", title |-> Val(from)]})
    \cup (IF to = None THEN {} ELSE {[ev |-> "enter", title |-> Val(to)]})

\* the pointer moves from where it is to q: onto a card, to another card or
\* off every card; the callbacks of the movement are queued
PointerGo(q) ==
    /\ delivery.pending = {}
    /\ q # pointer
    /\ IF q = None THEN TRUE ELSE Val(q) \in TitlesOf(items)
    /\ pointer' = q
    /\ delivery' = [pending |-> Callbacks(pointer, q), enterFirst |-> FALSE,
                    from |-> pointer, to |-> q]
    /\ last' = Event("pointer")
    /\ UNCHANGED <<itemsProp, hoveredTitle, queued, cardState, cards, spring, retargets>>

\* one queued callback runs: handleMouseLeave or handleMouseEnter of its card
Deliver(cb) ==
    /\ cb \in delivery.pending
    /\ Handled(IF cb.ev = "leave"
              THEN handleMouseLeave(state, ItemOf(cb.title))
              ELSE handleMouseEnter(state, ItemOf(cb.title)))
    /\ delivery' = [delivery EXCEPT
                       !.pending = @ \ {cb},
                       !.enterFirst = @ \/ (cb.ev = "enter" /\ delivery.pending # {cb})]
    /\ last' = IF cb.ev = "leave"
               THEN [Event("leave") EXCEPT !.left = Some(cb.title),
                                           !.offCentre = OffCentre(cardState[cb.title])]
               ELSE [Event("enter") EXCEPT !.card = Some(cb.title)]
    /\ UNCHANGED <<itemsProp, pointer, spring, retargets>>

PointerMoves == \E q \in {None} \cup { Some(t) : t \in TitlesOf(items) } : PointerGo(q)

Delivers == \E cb \in delivery.pending : Deliver(cb)

NextAnyOrder ==
    \/ PointerMoves
    \/ Delivers
    \/ RenderQueued

SpecAnyOrder == Init /\ [][NextAnyOrder]_vars

-----------------------------------------------------------------------------
(* The tilt springs of one card *)

\* useSpring(raw, TILT_SPRING) follows the spring equation of mass 1,
\*     x'' = -TILT_STIFFNESS * (x - target) - TILT_DAMPING * x',
\* from the current position and velocity whenever raw changes.  With
\* sigma = TILT_DAMPING / 2 = 14 and wd = sqrt(TILT_STIFFNESS - sigma^2) =
\* sqrt(104), the solution over one display frame h = 1/60 s maps the
\* offset e = x - target and the velocity per frame w = h * x' to
\*     e' = A11 * e + A12 * w        w' = A21 * e + A22 * w
\*     A11 = exp(-sigma h) (cos(wd h) + (sigma / wd) sin(wd h))
\*     A12 = exp(-sigma h) sin(wd h) / (wd h)
\*     A21 = -TILT_STIFFNESS h exp(-sigma h) sin(wd h) / wd
\*     A22 = exp(-sigma h) (cos(wd h) - (sigma / wd) sin(wd h))
\* The coefficients are given in units of 1/SpringDen.
SpringA11 == 96436
SpringA12 == 78808
SpringA21 == -6567
SpringA22 == 59659
SpringDen == 100000

\* a / b rounded toward zero, b > 0
Div(a, b) == IF a >= 0 THEN a \div b ELSE -((-a) \div b)

\* a fraction of a degree in units of 1/Scale degree
ToUnits(q) == Div(q[1] * Scale, q[2])

\* the spring one frame later
SpringStep(sp, target) ==
    LET e == sp.pos - target
    IN  [pos |-> target + Div(SpringA11 * e, SpringDen) + Div(SpringA12 * sp.vel, SpringDen),
         vel |-> Div(SpringA21 * e, SpringDen) + Div(SpringA22 * sp.vel, SpringDen)]

Observed == "A"

InitSpring ==
    /\ Init
    /\ itemsProp = Some(<<Item(Observed, "#f00")>>)

SpringEnter ==
    /\ EnterCard(Observed)

SpringLeave ==
    /\ retargets < MaxRetargets
    /\ pointer # None
    /\ Handled(handleMouseLeave(state, ItemOf(Val(pointer))))
    /\ pointer' = None
    /\ last' = [Event("leave") EXCEPT !.left = pointer,
                                      !.offCentre = OffCentre(cardState[Val(pointer)])]
    /\ retargets' = retargets + 1
    /\ UNCHANGED <<itemsProp, delivery, spring>>

SpringRect == [left |-> 0, top |-> 0, width |-> MaxW, height |-> MaxW]

SpringMove ==
    \E e \in { m \in MouseEvents(SpringRect) : InBounds(m, SpringRect) } :
        /\ retargets < MaxRetargets
        /\ pointer # None
        /\ cardState' = [cardState EXCEPT
                            ![Val(pointer)] = handleMouseMove(@, TRUE, e, SpringRect)]
        /\ last' = [Event("move") EXCEPT !.card = pointer, !.inBounds = TRUE]
        /\ retargets' = retargets + 1
        /\ UNCHANGED <<itemsProp, hoveredTitle, queued, cards, pointer, delivery, spring>>

\* one display frame: both springs advance toward the raw rotations
Tick ==
    /\ spring' = [rotateX |-> SpringStep(spring.rotateX,
                                         ToUnits(rawRotateX(cardState[Observed]))),
                  rotateY |-> SpringStep(spring.rotateY,
                                         ToUnits(rawRotateY(cardState[Observed])))]
    /\ spring' # spring
    /\ last' = Event("frame")
    /\ UNCHANGED <<itemsProp, hoveredTitle, queued, cardState, cards, pointer, delivery, retargets>>

NextSpring ==
    \/ SpringEnter
    \/ SpringLeave
    \/ SpringMove
    \/ RenderQueued
    \/ Tick

SpecSpring == InitSpring /\ [][NextSpring]_vars

-----------------------------------------------------------------------------
(* Properties *)

\* the rendered items considered hovered: those whose title is hoveredTitle
HoveredCount ==
    Cardinality({ i \in DOMAIN cards : IsHovered(hoveredTitle, cards[i].item) })

\* C1: in every reachable state a rendered card is dimmed if and only if
\* exactly one rendered item is hovered and the card is not that item's; so
\* when no rendered item is hovered no card is dimmed.
C1_DimmedIffOneHovered ==
    \A i \in DOMAIN cards :
        cards[i].dimmed <=>
            (HoveredCount = 1 /\ ~IsHovered(hoveredTitle, cards[i].item))

\* C3: when the hovered title changes from one title to another, the render
\* that follows has every dimmed flag derived from the new title: the card
\* of the new title is not dimmed and every other card is.
C3_NoStaleDimming ==
    [][ (hoveredTitle # None /\ hoveredTitle' # None /\ hoveredTitle' # hoveredTitle)
        => \A i \in DOMAIN cards' :
              cards'[i].dimmed = (cards'[i].item.title # Val(hoveredTitle')) ]_vars

C3_HoverMovedAcross ==
    /\ last.kind = "render"
    /\ last.left # None
    /\ last.card # None
    /\ last.left # last.card
    /\ hoveredTitle = last.card
    /\ Len(cards) >= 3
    /\ \E i, j \in DOMAIN cards :
          /\ cards[i].key = Val(last.left) /\ cards[i].dimmed
          /\ cards[j].key = Val(last.card) /\ ~cards[j].dimmed

\* C4: after a mouse-leave on a card its normX and normY are 0.5 and its
\* glow target is 0, whatever they were before.
C4_LeaveResets ==
    (last.kind \in {"leave", "cross"} /\ last.left # None) =>
        LET c == cardState[Val(last.left)]
        IN  c.normX = Half /\ c.normY = Half /\ c.glow = 0

C4_LeftOffCentre ==
    /\ last.kind = "leave"
    /\ last.left # None
    /\ last.offCentre
    /\ cardState[Val(last.left)] = InitCard

RotationWithinTilt(r) == Leq(Whole(-TILT_MAX), r) /\ Leq(r, Whole(TILT_MAX))

\* C5: after a mouse-move whose position lies within the card's bounding
\* rectangle, normX and normY are in [0, 1] and rawRotateX and rawRotateY
\* are in [-TILT_MAX, TILT_MAX].
C5_MoveWithinBounds ==
    (last.kind = "move" /\ last.refOk /\ last.inBounds) =>
        LET c == cardState[Val(last.card)]
        IN  /\ InUnit(c.normX) /\ InUnit(c.normY)
            /\ RotationWithinTilt(rawRotateX(c))
            /\ RotationWithinTilt(rawRotateY(c))

C5_MoveToCorner ==
    /\ last.kind = "move" /\ last.refOk /\ last.inBounds
    /\ cardState[Val(last.card)].normX = Whole(1)
    /\ cardState[Val(last.card)].normY = Whole(0)
    /\ rawRotateX(cardState[Val(last.card)]) = Whole(TILT_MAX)
    /\ rawRotateY(cardState[Val(last.card)]) = Whole(TILT_MAX)

\* C6: the displayed rotations, the spring-smoothed rotateX and rotateY,
\* stay within [-TILT_MAX, TILT_MAX] at every frame.
C6_DisplayedRotationWithinTilt ==
    /\ Abs(spring.rotateX.pos) <= TILT_MAX * Scale
    /\ Abs(spring.rotateY.pos) <= TILT_MAX * Scale

\* C7: with a caller-supplied list there is exactly one card per element, in
\* the order of the list, keyed by the item's title and showing the item;
\* the default items are shown only when the prop is omitted.
C7_RendersGivenItems ==
    /\ itemsProp # None =>
          /\ Len(cards) = Len(Val(itemsProp))
          /\ \A i \in DOMAIN cards :
                /\ cards[i].key = Val(itemsProp)[i].title
                /\ cards[i].item = Val(itemsProp)[i]
    /\ [i \in DOMAIN cards |-> cards[i].item] = DEFAULT_ITEMS => itemsProp = None

C7_TwoGivenItemsRendered ==
    /\ itemsProp # None
    /\ last.kind = "items"
    /\ Len(cards) = Cardinality(CallerTitles)
    /\ cards[1].key = "B"

C9_HoveredIsPointerAnyOrder ==
    (delivery.pending = {} /\ queued = <<>>) => hoveredTitle = pointer

\* C9, amended: the same when the mouse-leave of the card left was delivered
\* before the mouse-enter of the card entered.
C9_HoveredIsPointerLeaveFirst ==
    (delivery.pending = {} /\ queued = <<>> /\ ~delivery.enterFirst)
        => hoveredTitle = pointer

C9_CardToCardLeaveFirst ==
    /\ delivery.pending = {}
    /\ queued = <<>>
    /\ ~delivery.enterFirst
    /\ delivery.from # None
    /\ delivery.to # None
    /\ hoveredTitle = delivery.to

\* C10: a mouse-move changes at most the normX and normY of its own card,
\* and nothing at all when cardRef.current is null.
C10_MoveFrame ==
    [][ last'.kind = "move"
        => /\ hoveredTitle' = hoveredTitle
           /\ queued' = queued
           /\ cards' = cards
           /\ itemsProp' = itemsProp
           /\ DOMAIN cardState' = DOMAIN cardState
           /\ \A t \in DOMAIN cardState :
                 /\ cardState'[t].glow = cardState[t].glow
                 /\ t # Val(last'.card) => cardState'[t] = cardState[t]
           /\ ~last'.refOk => cardState' = cardState ]_vars

C10_MoveWithoutRef ==
    /\ last.kind = "move"
    /\ ~last.refOk
    /\ OffCentre(cardState[Val(last.card)])

====
